---- MODULE Spec2Model ----
(***************************************************************************)
(* Model of src/app.py: the change-set schema (JSON_SCHEMA_V1), the patch  *)
(* applier (apply_patch_spec, write_file) and the /api/run handler         *)
(* (api_run) of the Gradle build-repair GUI.                               *)
(*                                                                         *)
(* Strings that the code compares character by character (str(target),    *)
(* str(root)) are sequences of one-character strings; a path name is such  *)
(* a sequence, a declared path is the sequence of its '/'-separated        *)
(* components, and an absolute path is the sequence of its names.          *)
(* The filesystem holds no symbolic links, so Path.resolve() is lexical.   *)
(***************************************************************************)
EXTENDS Integers, Sequences, FiniteSets, TLC

VARIABLES
    APPLY_CHANGES,  \* module-level flag read from the environment at import
    fs,             \* the filesystem: absolute path -> node, present paths only
    fs0,            \* the filesystem when the request arrived (history)
    pc,             \* position of the api_run handler
    project_root,   \* api_run: the resolved project root of the request
    rc,             \* api_run: exit code of the build
    spec,           \* api_run: the document the model call returned
    idx,            \* apply_patch_spec: number of changes the loop has completed
    actions_log,    \* apply_patch_spec: the local list actions_log
    cmd_idx,        \* api_run: number of commands the loop has run
    cmd_outs,       \* api_run: the local list cmd_outs
    raised,         \* the exception in flight inside the try block, or NoExc
    response,       \* the JSON body api_run returned, or NoResponse
    calls,          \* how often the run entered each stage (history)
    artifacts,      \* the artifact files the run has written so far (history)
    runs,           \* concurrent requests: each request's position and locals
    clock,          \* concurrent requests: datetime.now(), in whole seconds
    logs_dir,       \* concurrent requests: LOGS_DIR, file name -> content
    prompts_dir     \* concurrent requests: PROMPTS_DIR, file name -> content

\* the state of the requests that share LOGS_DIR and PROMPTS_DIR
runvars == <<runs, clock, logs_dir, prompts_dir>>

vars == <<APPLY_CHANGES, fs, fs0, pc, project_root, rc, spec, idx, actions_log,
          cmd_idx, cmd_outs, raised, response, calls, artifacts, runvars>>

---------------------------------------------------------------------------
(* Bounds of the model *)

\* longest `changes` list a document carries
MaxChanges == 2
\* longest `commands` list a document carries
MaxCmds == 2
\* number of requests that share the artifact directories
NRuns == 2
\* seconds the clock may advance while those requests run
MaxClock == 1

---------------------------------------------------------------------------
(* Path names and declared paths *)

Absent == "<absent>"

N_r == <<"r">>
N_rs == <<"r", "s">>
N_o == <<"o">>
N_a == <<"a">>
N_b == <<"b">>
N_c == <<"c">>
N_x == <<"x">>
N_y == <<"y">>
N_k == <<"k">>
N_gradle == <<"g">>
Dot == <<".">>
DotDot == <<".", ".">>
Empty == <<>>

\* the project root of the request, /r; /rs is a sibling directory whose name
\* has the root's name as a string prefix; /o lies outside the root
RootDir == <<N_r>>
SiblingDir == <<N_rs>>

P_a == <<N_a>>
P_b == <<N_b>>
P_ac == <<N_a, N_c>>
P_dot == <<Dot>>
P_up_o == <<DotDot, N_o>>
P_abs_o == <<Empty, N_o>>
P_sib_x == <<DotDot, N_rs, N_x>>
P_sib_y == <<DotDot, N_rs, N_y>>

\* root / path: an absolute right operand replaces the left one
JoinPath(root, path) ==
    IF Len(path) > 0 /\ path[1] = Empty THEN path ELSE root \o path

RECURSIVE Normalize(_, _)
\* Path.resolve() without symbolic links: drops '' and '.', '..' pops a name
\* ('..' of the filesystem root is the filesystem root)
Normalize(done, rest) ==
    IF rest = <<>> THEN done
    ELSE LET c == Head(rest) IN
         IF c = Empty \/ c = Dot THEN Normalize(done, Tail(rest))
         ELSE IF c = DotDot
              THEN Normalize(IF done = <<>> THEN <<>> ELSE SubSeq(done, 1, Len(done) - 1),
                             Tail(rest))
              ELSE Normalize(Append(done, c), Tail(rest))

Resolve(root, path) == Normalize(<<>>, JoinPath(root, path))

RECURSIVE PathStr(_)
\* str(p) of an absolute path: '/' and the name, for each name; '/' for the root
PathStr(p) ==
    IF p = <<>> THEN <<"/">>
    ELSE IF Len(p) = 1 THEN <<"/">> \o p[1]
         ELSE PathStr(SubSeq(p, 1, Len(p) - 1)) \o <<"/">> \o p[Len(p)]

\* str.startswith
StartsWith(s, prefix) ==
    Len(prefix) <= Len(s) /\ SubSeq(s, 1, Len(prefix)) = prefix

\* the guard of lines 105 and 124, negated: the resolved target passes the check
PassesRootCheck(root, target) == StartsWith(PathStr(target), PathStr(root))

\* a path is inside root: root itself, or root followed by further names
IsPrefix(p, q) == Len(p) <= Len(q) /\ SubSeq(q, 1, Len(p)) = p
InsideRoot(root, target) == IsPrefix(root, target)

---------------------------------------------------------------------------
(* The filesystem *)

DirNode == [kind |-> "dir", data |-> ""]
FileNode(d) == [kind |-> "file", data |-> d]

Exists(f, p) == p \in DOMAIN f
IsDir(f, p) == Exists(f, p) /\ f[p].kind = "dir"
IsFile(f, p) == Exists(f, p) /\ f[p].kind = "file"
Parent(p) == SubSeq(p, 1, Len(p) - 1)
Basename(p) == p[Len(p)]
Prefixes(p) == {SubSeq(p, 1, n) : n \in 0..Len(p)}

\* f with the paths of S removed / with p bound to node
Without(f, S) == [q \in (DOMAIN f) \ S |-> f[q]]
With(f, p, node) == [q \in (DOMAIN f) \cup {p} |-> IF q = p THEN node ELSE f[q]]
Subtree(f, p) == {q \in DOMAIN f : IsPrefix(p, q)}

\* Path.mkdir(parents=True, exist_ok=True) on directory d: every missing prefix
\* of d becomes a directory; fails when a prefix of d is a file
Mkdirs(f, d) ==
    IF \E q \in Prefixes(d) : IsFile(f, q)
    THEN [ok |-> FALSE, fs |-> f]
    ELSE [ok |-> TRUE,
          fs |-> [q \in (DOMAIN f) \cup Prefixes(d) |->
                    IF q \in DOMAIN f THEN f[q] ELSE DirNode]]

---------------------------------------------------------------------------
(* Content and its encodings *)

\* the content strings a change carries: C_b64 is the base64 text of the byte
\* string "A"; C_bad is no valid base64 (one data character)
C_b64 == "QQ=="
C_bad == "Q"
Contents == {C_b64, C_bad}

\* base64.b64decode(content): the decoded bytes, or a binascii.Error
B64Valid(content) == content = C_b64
B64Decode(content) == IF content = C_b64 THEN "A" ELSE "<binascii.Error>"

NoExc == "<none>"

\* write_file that opens an existing target for appending: the file no
\* longer holds exactly the content written
write_file_Appends(f, target, content, encoding) ==
    LET made == Mkdirs(f, Parent(target)) IN
    IF ~made.ok THEN [fs |-> f, exc |-> "OSError"]
    ELSE IF encoding = "base64" /\ ~B64Valid(content)
         THEN [fs |-> made.fs, exc |-> "binascii.Error"]
         ELSE IF IsDir(made.fs, target) THEN [fs |-> made.fs, exc |-> "OSError"]
         ELSE [fs |-> With(made.fs, target,
                           FileNode(IF IsFile(made.fs, target) THEN "<appended>"
                                    ELSE IF encoding = "base64" THEN B64Decode(content)
                                    ELSE content)),
               exc |-> NoExc]

\* write_file(target, content, encoding)
write_file(f, target, content, encoding) ==
    LET made == Mkdirs(f, Parent(target)) IN
    IF ~made.ok THEN [fs |-> f, exc |-> "OSError"]
    ELSE IF encoding = "base64"
         THEN IF ~B64Valid(content) THEN [fs |-> made.fs, exc |-> "binascii.Error"]
              ELSE IF IsDir(made.fs, target) THEN [fs |-> made.fs, exc |-> "OSError"]
              ELSE [fs |-> With(made.fs, target, FileNode(B64Decode(content))),
                    exc |-> NoExc]
         ELSE IF IsDir(made.fs, target) THEN [fs |-> made.fs, exc |-> "OSError"]
              ELSE [fs |-> With(made.fs, target, FileNode(content)), exc |-> NoExc]

\* lines 115-119: remove the target when it exists, recursively when a directory
delete_target(f, target) ==
    IF ~Exists(f, target) THEN f
    ELSE IF IsDir(f, target) THEN Without(f, Subtree(f, target))
         ELSE Without(f, {target})

\* os.rename(src, dst) where it succeeds: the subtree of src is re-rooted at dst
Rename(f, src, dst) ==
    IF src = dst THEN f
    ELSE LET moved == Subtree(f, src)
             kept == (DOMAIN f) \ (moved \cup {dst})
             to(q) == dst \o SubSeq(q, Len(src) + 1, Len(q))
         IN [q \in kept \cup {to(m) : m \in moved} |->
               IF q \in kept THEN f[q]
               ELSE f[CHOOSE m \in moved : to(m) = q]]

\* shutil.move(str(src), str(dst)); a failure leaves the filesystem as it was
shutil_move(f, src, dst) ==
    LET real_dst == IF IsDir(f, dst) /\ src # dst THEN Append(dst, Basename(src))
                    ELSE dst
    IN
    IF IsDir(f, dst) /\ src = dst /\ Exists(f, src) THEN [fs |-> f, exc |-> NoExc]
    ELSE IF IsDir(f, dst) /\ Exists(f, real_dst) THEN [fs |-> f, exc |-> "OSError"]
    ELSE IF ~Exists(f, src) THEN [fs |-> f, exc |-> "OSError"]
    ELSE IF IsDir(f, src) /\ src # real_dst /\ IsPrefix(src, real_dst)
         THEN [fs |-> f, exc |-> "OSError"]   \* a directory into itself
    ELSE IF IsDir(f, src) /\ IsFile(f, real_dst)
         THEN [fs |-> f, exc |-> "OSError"]   \* rename: ENOTDIR, copytree: exists
    ELSE [fs |-> Rename(f, src, real_dst), exc |-> NoExc]

\* lines 126-128: create the destination's parents, then move
move_target(f, src, dst) ==
    LET made == Mkdirs(f, Parent(dst)) IN
    IF ~made.ok THEN [fs |-> f, exc |-> "OSError"]
    ELSE shutil_move(made.fs, src, dst)

---------------------------------------------------------------------------
(* Documents: the JSON object the model call returns *)

\* A change is a JSON object: `keys` is the set of keys it carries; the value
\* of a key it does not carry is a filler (Absent, NoPath) that nothing reads.
NoPath == <<>>
Actions == {"write", "create", "delete", "move"}
Encodings == {"utf-8", "base64"}

Change(keys, action, path, content, encoding, from, to) ==
    [keys |-> keys, action |-> action, path |-> path, content |-> content,
     encoding |-> encoding, from |-> from, to |-> to]

WriteCh(action, path, content) ==
    Change({"action", "path", "content"}, action, path, content, Absent, NoPath, NoPath)
WriteEnc(action, path, content, encoding) ==
    Change({"action", "path", "content", "encoding"}, action, path, content, encoding,
           NoPath, NoPath)
DeleteCh(path) ==
    Change({"action", "path"}, "delete", path, Absent, Absent, NoPath, NoPath)
MoveCh(path, from, to) ==
    Change({"action", "path", "from", "to"}, "move", path, Absent, Absent, from, to)

\* changes that conform to the item schema
GoodChanges ==
    { WriteCh("write", P_a, C_b64),
      WriteEnc("write", P_ac, C_b64, "base64"),
      WriteEnc("write", P_a, C_bad, "base64"),
      WriteEnc("write", P_ac, C_bad, "base64"),
      WriteCh("write", P_up_o, C_b64),
      WriteCh("write", P_sib_x, C_b64),
      WriteEnc("create", P_b, C_b64, "utf-8"),
      DeleteCh(P_a),
      DeleteCh(P_dot),
      DeleteCh(P_sib_x),
      MoveCh(P_a, P_a, P_b),
      MoveCh(P_a, P_a, P_up_o),
      MoveCh(P_a, P_abs_o, P_b),
      MoveCh(P_up_o, P_a, P_b),
      MoveCh(P_dot, P_dot, P_sib_y) }

\* changes with a key missing, an unknown action, or an undeclared key
OddChanges ==
    { Change({"action", "from", "to"}, "move", NoPath, Absent, Absent, P_a, P_b),
      Change({"action", "path", "from"}, "move", P_a, Absent, Absent, P_a, NoPath),
      Change({"action", "path", "to"}, "move", P_a, Absent, Absent, NoPath, P_b),
      Change({"action", "path"}, "write", P_a, Absent, Absent, NoPath, NoPath),
      Change({"action", "path"}, "chmod", P_a, Absent, Absent, NoPath, NoPath),
      Change({"action", "path", "content", "mode"}, "write", P_a, C_b64, Absent,
             NoPath, NoPath) }

Changes == GoodChanges \cup OddChanges

SeqsUpTo(S, n) == UNION {[1..k -> S] : k \in 0..n}

\* the shell commands a document may carry: one that creates the file k in
\* its working directory, and one that exits with status 1
C_touch == "touch k"
C_false == "false"
Cmds == {C_touch, C_false}

Doc(keys, version, intent, changes, commands) ==
    [keys |-> keys, version |-> version, intent |-> intent, changes |-> changes,
     commands |-> commands]

TopKeys == {"version", "intent", "changes", "commands"}

\* top-level shapes that violate the root schema: a required key missing, a
\* literal other than the allowed one, an undeclared key ("foo")
OddHeaders ==
    { [keys |-> TopKeys \ {"version"}, version |-> Absent, intent |-> "apply_fixes"],
      [keys |-> TopKeys, version |-> "2", intent |-> "apply_fixes"],
      [keys |-> TopKeys \ {"intent"}, version |-> "1", intent |-> Absent],
      [keys |-> TopKeys, version |-> "1", intent |-> "other"],
      [keys |-> TopKeys \ {"changes"}, version |-> "1", intent |-> "apply_fixes"],
      [keys |-> TopKeys \cup {"foo"}, version |-> "1", intent |-> "apply_fixes"],
      [keys |-> TopKeys \ {"version"}, version |-> Absent, intent |-> "other"] }

\* the documents the model call may return
FullDocs ==
    { Doc(TopKeys, "1", "apply_fixes", chs, cmds) :
        chs \in SeqsUpTo(Changes, MaxChanges), cmds \in SeqsUpTo({C_touch}, 1) }
CmdDocs ==
    { Doc(TopKeys, "1", "apply_fixes", chs, cmds) :
        chs \in SeqsUpTo(GoodChanges, 1), cmds \in SeqsUpTo(Cmds, MaxCmds) }
HeaderDocs ==
    { Doc(h.keys, h.version, h.intent,
          IF "changes" \in h.keys THEN chs ELSE <<>>, cmds) :
        h \in OddHeaders, chs \in SeqsUpTo(Changes, 1), cmds \in SeqsUpTo({C_touch}, 1) }
Docs == FullDocs \cup CmdDocs \cup HeaderDocs

---------------------------------------------------------------------------
(* JSON_SCHEMA_V1 and Draft7Validator(JSON_SCHEMA_V1).iter_errors *)

\* an error of the validator: e.path is <<top, i, sub>> with "" and -1 for the
\* parts the path does not have; kw is the failing keyword, what its subject
Err(top, i, sub, kw, what) ==
    [top |-> top, i |-> i, sub |-> sub, kw |-> kw, what |-> what]
Opt(cond, e) == IF cond THEN <<e>> ELSE <<>>

\* ItemErrors with the enum of `action` (line 31) left out
ItemErrors_NoActionEnum(ch, i) ==
    LET ifAction(a) == "action" \notin ch.keys \/ ch.action = a IN
       Opt("action" \notin ch.keys, Err("changes", i, "", "required", "action"))
    \o Opt("path" \notin ch.keys, Err("changes", i, "", "required", "path"))
    \o Opt("encoding" \in ch.keys /\ ch.encoding \notin Encodings,
           Err("changes", i, "encoding", "enum", "encoding"))
    \o Opt(ifAction("write") /\ "content" \notin ch.keys,
           Err("changes", i, "", "required", "content"))
    \o Opt(ifAction("create") /\ "content" \notin ch.keys,
           Err("changes", i, "", "required", "content"))
    \o Opt(ifAction("move") /\ "from" \notin ch.keys,
           Err("changes", i, "", "required", "from"))
    \o Opt(ifAction("move") /\ "to" \notin ch.keys,
           Err("changes", i, "", "required", "to"))

\* ItemErrors with `path` left out of the required keys (line 29)
ItemErrors_PathOptional(ch, i) ==
    LET ifAction(a) == "action" \notin ch.keys \/ ch.action = a IN
       Opt("action" \notin ch.keys, Err("changes", i, "", "required", "action"))
    \o Opt("action" \in ch.keys /\ ch.action \notin Actions,
           Err("changes", i, "action", "enum", "action"))
    \o Opt("encoding" \in ch.keys /\ ch.encoding \notin Encodings,
           Err("changes", i, "encoding", "enum", "encoding"))
    \o Opt(ifAction("write") /\ "content" \notin ch.keys,
           Err("changes", i, "", "required", "content"))
    \o Opt(ifAction("create") /\ "content" \notin ch.keys,
           Err("changes", i, "", "required", "content"))
    \o Opt(ifAction("move") /\ "from" \notin ch.keys,
           Err("changes", i, "", "required", "from"))
    \o Opt(ifAction("move") /\ "to" \notin ch.keys,
           Err("changes", i, "", "required", "to"))

\* the errors of the item schema (lines 27-43) on change ch at index i, in the
\* order of the schema's keywords: required, properties, allOf
ItemErrors(ch, i) ==
    LET ifAction(a) == "action" \notin ch.keys \/ ch.action = a IN
       Opt("action" \notin ch.keys, Err("changes", i, "", "required", "action"))
    \o Opt("path" \notin ch.keys, Err("changes", i, "", "required", "path"))
    \o Opt("action" \in ch.keys /\ ch.action \notin Actions,
           Err("changes", i, "action", "enum", "action"))
    \o Opt("encoding" \in ch.keys /\ ch.encoding \notin Encodings,
           Err("changes", i, "encoding", "enum", "encoding"))
    \o Opt(ifAction("write") /\ "content" \notin ch.keys,
           Err("changes", i, "", "required", "content"))
    \o Opt(ifAction("create") /\ "content" \notin ch.keys,
           Err("changes", i, "", "required", "content"))
    \o Opt(ifAction("move") /\ "from" \notin ch.keys,
           Err("changes", i, "", "required", "from"))
    \o Opt(ifAction("move") /\ "to" \notin ch.keys,
           Err("changes", i, "", "required", "to"))

RECURSIVE ItemsErrors(_, _)
\* the errors of the items of `changes` from index i (0-based) on
ItemsErrors(chs, i) ==
    IF i >= Len(chs) THEN <<>>
    ELSE ItemErrors(chs[i + 1], i) \o ItemsErrors(chs, i + 1)

\* iter_errors(spec) on the root schema (lines 19-49): required, properties,
\* additionalProperties
iter_errors(doc) ==
       Opt("version" \notin doc.keys, Err("", -1, "", "required", "version"))
    \o Opt("intent" \notin doc.keys, Err("", -1, "", "required", "intent"))
    \o Opt("changes" \notin doc.keys, Err("", -1, "", "required", "changes"))
    \o Opt("version" \in doc.keys /\ doc.version # "1",
           Err("version", -1, "", "enum", "version"))
    \o Opt("intent" \in doc.keys /\ doc.intent # "apply_fixes",
           Err("intent", -1, "", "enum", "intent"))
    \o (IF "changes" \in doc.keys THEN ItemsErrors(doc.changes, 0) ELSE <<>>)
    \o Opt(doc.keys \ {"version", "intent", "changes", "commands", "notes"} # {},
           Err("", -1, "", "additionalProperties", "foo"))

\* the order of Python strings among the keys a path can hold
KeyRank(k) ==
    CASE k = "" -> 0
      [] k = "action" -> 1
      [] k = "changes" -> 2
      [] k = "encoding" -> 3
      [] k = "intent" -> 4
      [] OTHER -> 5

\* e.path < f.path, as collections.deque compares (lexicographic)
PathLess(e, f) ==
    \/ KeyRank(e.top) < KeyRank(f.top)
    \/ e.top = f.top /\ e.i < f.i
    \/ e.top = f.top /\ e.i = f.i /\ KeyRank(e.sub) < KeyRank(f.sub)

RECURSIVE InsertSorted(_, _)
InsertSorted(sorted, e) ==
    IF sorted = <<>> THEN <<e>>
    ELSE IF PathLess(e, sorted[Len(sorted)])
         THEN Append(InsertSorted(SubSeq(sorted, 1, Len(sorted) - 1), e),
                     sorted[Len(sorted)])
         ELSE Append(sorted, e)

RECURSIVE SortByPath(_)
\* sorted(errors, key=lambda e: e.path): a stable sort
SortByPath(errs) ==
    IF errs = <<>> THEN <<>>
    ELSE InsertSorted(SortByPath(SubSeq(errs, 1, Len(errs) - 1)), errs[Len(errs)])

\* len(e.path)
PathLen(e) == (IF e.top = "" THEN 0 ELSE 1) + (IF e.i = -1 THEN 0 ELSE 1)
              + (IF e.sub = "" THEN 0 ELSE 1)

\* jsonschema.validate raises best_match(errors): one error of the least
\* path length (which one among equals depends on the library version)
BestMatches(errs) ==
    {errs[n] : n \in {m \in 1..Len(errs) :
                        \A j \in 1..Len(errs) : PathLen(errs[m]) <= PathLen(errs[j])}}

---------------------------------------------------------------------------
(* The request handler api_run and the patch applier apply_patch_spec *)

N_nope == <<"n">>
BuildFile == N_gradle

\* the filesystem a request may find: / with the project /r (build file g,
\* file a), the sibling directory /rs (file x) and the file /o
FS_base ==
    ( <<>> :> DirNode ) @@ ( RootDir :> DirNode ) @@
    ( <<N_r, BuildFile>> :> FileNode("gradle") ) @@
    ( SiblingDir :> DirNode ) @@ ( <<N_rs, N_x>> :> FileNode("sib") ) @@
    ( <<N_o>> :> FileNode("out") )
InitFS == { FS_base, FS_base @@ ( <<N_r, N_a>> :> FileNode("old") ) }

\* the project roots a request may name
Roots == {RootDir, SiblingDir, <<N_nope>>}
\* the exit codes run_gradle returns: success, build failure, gradle not found
ExitCodes == {0, 1, 127}

NoResponse == [code |-> 0]
NoDoc == Doc({}, Absent, Absent, <<>>, <<>>)

is_gradle_project(f, root) == Exists(f, Append(root, BuildFile))

\* the artifact files of a run: lines 202 and 211
LogFile == "build-ts.log"
PromptFile == "prompt-ts.txt"

NoCalls == [build |-> 0, model |-> 0, model_raised |-> 0, validate |-> 0, apply |-> 0]

Runs == 1..NRuns
IdleRun == [pc |-> "idle", root |-> <<>>, rc |-> 0, ts |-> -1,
            log_file |-> -1, prompt_file |-> -1]

\* no request has arrived yet, the artifact directories are empty
RunsInit ==
    /\ runs = [r \in Runs |-> IdleRun]
    /\ clock = 0
    /\ logs_dir = <<>>
    /\ prompts_dir = <<>>

Init ==
    /\ APPLY_CHANGES \in BOOLEAN
    /\ fs \in InitFS
    /\ fs0 = fs
    /\ pc = "idle"
    /\ project_root = <<>>
    /\ rc = 0
    /\ spec = NoDoc
    /\ idx = 0
    /\ actions_log = <<>>
    /\ cmd_idx = 0
    /\ cmd_outs = <<>>
    /\ raised = NoExc
    /\ response = NoResponse
    /\ calls = NoCalls
    /\ artifacts = {}
    /\ RunsInit

\* lines 193-198: the request names a project root
Request ==
    /\ pc = "idle"
    /\ \E root \in Roots :
         /\ project_root' = root
         /\ IF ~Exists(fs, root)
            THEN /\ response' = [code |-> 400, ok |-> FALSE,
                                 error |-> "Project root does not exist."]
                 /\ pc' = "done"
            ELSE IF ~is_gradle_project(fs, root)
            THEN /\ response' = [code |-> 400, ok |-> FALSE,
                                 error |-> "No build.gradle or build.gradle.kts in project root."]
                 /\ pc' = "done"
            ELSE /\ response' = response
                 /\ pc' = "build"
    /\ UNCHANGED <<APPLY_CHANGES, fs, fs0, rc, spec, idx, actions_log, cmd_idx,
                   cmd_outs, raised, calls, artifacts, runvars>>

\* RunGradle without the early return of lines 205-206: exit code 0 goes on to
\* the prompt and the model call as well
RunGradle_NoSuccessExit ==
    /\ pc = "build"
    /\ \E code \in ExitCodes :
         /\ rc' = code
         /\ response' = response
         /\ artifacts' = artifacts \cup {LogFile, PromptFile}
         /\ pc' = "model"
    /\ calls' = [calls EXCEPT !.build = @ + 1]
    /\ UNCHANGED <<APPLY_CHANGES, fs, fs0, project_root, spec, idx, actions_log,
                   cmd_idx, cmd_outs, raised, runvars>>

\* lines 200-212: the build runs, its log is written; on success the run ends,
\* otherwise the prompt is written
RunGradle ==
    /\ pc = "build"
    /\ \E code \in ExitCodes :
         /\ rc' = code
         /\ IF code = 0
            THEN /\ response' = [code |-> 200, ok |-> TRUE, status |-> "success",
                                 log_file |-> "build-ts.log"]
                 /\ artifacts' = artifacts \cup {LogFile}
                 /\ pc' = "done"
            ELSE /\ response' = response
                 /\ artifacts' = artifacts \cup {LogFile, PromptFile}
                 /\ pc' = "model"
    /\ calls' = [calls EXCEPT !.build = @ + 1]
    /\ UNCHANGED <<APPLY_CHANGES, fs, fs0, project_root, spec, idx, actions_log,
                   cmd_idx, cmd_outs, raised, runvars>>

\* CallModel without the except clause of lines 216-223: a failed call leaves
\* an empty document and the run goes on to validation
CallModel_SwallowsError ==
    /\ pc = "model"
    /\ \/ /\ spec' = NoDoc
          /\ pc' = "validate"
          /\ response' = response
          /\ calls' = [calls EXCEPT !.model = @ + 1, !.model_raised = @ + 1]
       \/ /\ spec' \in Docs
          /\ pc' = "validate"
          /\ response' = response
          /\ calls' = [calls EXCEPT !.model = @ + 1]
    /\ UNCHANGED <<APPLY_CHANGES, fs, fs0, project_root, rc, idx, actions_log,
                   cmd_idx, cmd_outs, raised, artifacts, runvars>>

\* lines 214-223: the model call raises, or returns a document
CallModel ==
    /\ pc = "model"
    /\ \/ /\ response' = [code |-> 500, ok |-> FALSE, status |-> "openai_error",
                          error |-> "Exception", prompt_file |-> "prompt-ts.txt",
                          log_file |-> "build-ts.log"]
          /\ pc' = "done"
          /\ spec' = spec
          /\ calls' = [calls EXCEPT !.model = @ + 1, !.model_raised = @ + 1]
       \/ /\ spec' \in Docs
          /\ pc' = "validate"
          /\ response' = response
          /\ calls' = [calls EXCEPT !.model = @ + 1]
    /\ UNCHANGED <<APPLY_CHANGES, fs, fs0, project_root, rc, idx, actions_log,
                   cmd_idx, cmd_outs, raised, artifacts, runvars>>

\* lines 250-253: the except clauses of api_run's try block
Handled(exc, error) ==
    IF exc = "ValidationError"
    THEN [code |-> 400, ok |-> FALSE, status |-> "schema_error", error |-> error,
          spec |-> spec]
    ELSE [code |-> 500, ok |-> FALSE, status |-> "apply_error", error |-> error,
          spec |-> spec]

\* the ValidationError apply_patch_spec raises (line 99): every error, sorted
AllErrors(doc) == SortByPath(iter_errors(doc))

\* lines 228-232 with lines 95-99: the document is validated; apply_patch_spec
\* does it when APPLY_CHANGES, jsonschema.validate otherwise
Validate ==
    /\ pc = "validate"
    /\ IF APPLY_CHANGES
       THEN IF AllErrors(spec) # <<>>
            THEN /\ raised' = "ValidationError"
                 /\ response' = Handled("ValidationError", AllErrors(spec))
                 /\ pc' = "done"
            ELSE /\ pc' = "apply"
                 /\ UNCHANGED <<raised, response>>
       ELSE IF iter_errors(spec) # <<>>
            THEN /\ \E e \in BestMatches(iter_errors(spec)) :
                       response' = Handled("ValidationError", <<e>>)
                 /\ raised' = "ValidationError"
                 /\ pc' = "done"
            ELSE /\ pc' = "commands"
                 /\ UNCHANGED <<raised, response>>
    /\ calls' = [calls EXCEPT !.validate = @ + 1,
                              !.apply = IF pc' = "apply" THEN @ + 1 ELSE @]
    /\ UNCHANGED <<APPLY_CHANGES, fs, fs0, project_root, rc, spec, idx, actions_log,
                   cmd_idx, cmd_outs, artifacts, runvars>>

\* str.upper left out: the tag is logged as the document spells it
Upper_Identity(a) == a

\* str.upper on an action tag
Upper(a) ==
    CASE a = "write" -> "WRITE"
      [] a = "create" -> "CREATE"
      [] a = "delete" -> "DELETE"
      [] a = "move" -> "MOVE"
      [] OTHER -> a

\* the records of lines 113, 120 and 129
LogRec(verb, path, to) == [verb |-> verb, path |-> path, to |-> to]

\* lines 102-131: the loop body of apply_patch_spec on change ch, from
\* filesystem f: the filesystem it leaves, the exception it raises (or NoExc)
\* and the record it appends
apply_change(f, root, apply, ch) ==
    LET target == Resolve(root, ch.path) IN
    IF ~PassesRootCheck(root, target)
    THEN [fs |-> f, exc |-> "ValueError", log |-> <<>>]
    ELSE IF ch.action \in {"write", "create"}
    THEN LET encoding == IF "encoding" \in ch.keys THEN ch.encoding ELSE "utf-8"
             w == IF apply THEN write_file(f, target, ch.content, encoding)
                  ELSE [fs |-> f, exc |-> NoExc]
         IN [fs |-> w.fs, exc |-> w.exc,
             log |-> IF w.exc = NoExc
                     THEN <<LogRec(Upper(ch.action), ch.path, NoPath)>> ELSE <<>>]
    ELSE IF ch.action = "delete"
    THEN [fs |-> IF apply THEN delete_target(f, target) ELSE f, exc |-> NoExc,
          log |-> <<LogRec("DELETE", ch.path, NoPath)>>]
    ELSE IF ch.action = "move"
    THEN LET src == Resolve(root, ch.from)
             dst == Resolve(root, ch.to)
         IN IF ~PassesRootCheck(root, src) \/ ~PassesRootCheck(root, dst)
            THEN [fs |-> f, exc |-> "ValueError", log |-> <<>>]
            ELSE LET m == IF apply THEN move_target(f, src, dst)
                          ELSE [fs |-> f, exc |-> NoExc]
                 IN [fs |-> m.fs, exc |-> m.exc,
                     log |-> IF m.exc = NoExc
                             THEN <<LogRec("MOVE", ch.from, ch.to)>> ELSE <<>>]
    ELSE [fs |-> f, exc |-> "ValueError", log |-> <<>>]

\* one iteration of the loop of line 101, or the exception that ends it
ApplyChange ==
    /\ pc = "apply"
    /\ idx < Len(spec.changes)
    /\ LET r == apply_change(fs, project_root, APPLY_CHANGES, spec.changes[idx + 1]) IN
         /\ fs' = r.fs
         /\ IF r.exc = NoExc
            THEN /\ idx' = idx + 1
                 /\ actions_log' = actions_log \o r.log
                 /\ UNCHANGED <<pc, raised, response>>
            ELSE /\ raised' = r.exc
                 /\ response' = Handled(r.exc, r.exc)
                 /\ pc' = "done"
                 /\ UNCHANGED <<idx, actions_log>>
    /\ UNCHANGED <<APPLY_CHANGES, fs0, project_root, rc, spec, cmd_idx, cmd_outs,
                   calls, artifacts, runvars>>

\* line 132: the loop is over, apply_patch_spec returns actions_log
ApplyReturn ==
    /\ pc = "apply"
    /\ idx = Len(spec.changes)
    /\ pc' = "commands"
    /\ UNCHANGED <<APPLY_CHANGES, fs, fs0, project_root, rc, spec, idx, actions_log,
                   cmd_idx, cmd_outs, raised, response, calls, artifacts, runvars>>

\* subprocess.run(cmd, cwd=project_root, shell=True): the filesystem it leaves
\* and its return code; it raises when the working directory is gone
run_command(f, root, cmd) ==
    IF ~IsDir(f, root) THEN [fs |-> f, returncode |-> 1, output |-> "Error"]
    ELSE IF cmd = C_touch
    THEN [fs |-> IF Exists(f, Append(root, N_k)) THEN f
                 ELSE With(f, Append(root, N_k), FileNode("")),
          returncode |-> 0, output |-> ""]
    ELSE [fs |-> f, returncode |-> 1, output |-> ""]

\* lines 235-240: one iteration of the loop over spec.get("commands", [])
RunCommand ==
    /\ pc = "commands"
    /\ cmd_idx < Len(spec.commands)
    /\ LET cmd == spec.commands[cmd_idx + 1]
           r == run_command(fs, project_root, cmd)
       IN /\ fs' = r.fs
          /\ cmd_outs' = Append(cmd_outs, [cmd |-> cmd, returncode |-> r.returncode,
                                           output |-> r.output])
    /\ cmd_idx' = cmd_idx + 1
    /\ UNCHANGED <<APPLY_CHANGES, fs0, pc, project_root, rc, spec, idx, actions_log,
                   raised, response, calls, artifacts, runvars>>

\* lines 241-249: the report of a run whose try block raised nothing
Report ==
    /\ pc = "commands"
    /\ cmd_idx = Len(spec.commands)
    /\ response' = [code |-> 200, ok |-> TRUE,
                    status |-> IF APPLY_CHANGES THEN "patch_applied" ELSE "validated_only",
                    actions |-> actions_log, spec |-> spec,
                    prompt_file |-> "prompt-ts.txt", log_file |-> "build-ts.log",
                    commands |-> cmd_outs]
    /\ pc' = "done"
    /\ UNCHANGED <<APPLY_CHANGES, fs, fs0, project_root, rc, spec, idx, actions_log,
                   cmd_idx, cmd_outs, raised, calls, artifacts, runvars>>

Next ==
    \/ Request
    \/ RunGradle
    \/ CallModel
    \/ Validate
    \/ ApplyChange
    \/ ApplyReturn
    \/ RunCommand
    \/ Report

Spec == Init /\ [][Next]_vars

---------------------------------------------------------------------------
(* apply_patch_spec as a function of the filesystem and the change list *)

RECURSIVE ApplyFrom(_, _, _, _, _)
\* lines 101-132 from change number n (1-based) on: the filesystem left, the
\* exception that ended the loop (or NoExc) and the log built
ApplyFrom(f, root, apply, chs, n) ==
    IF n > Len(chs) THEN [fs |-> f, exc |-> NoExc, log |-> <<>>]
    ELSE LET r == apply_change(f, root, apply, chs[n]) IN
         IF r.exc # NoExc THEN [fs |-> r.fs, exc |-> r.exc, log |-> <<>>]
         ELSE LET rest == ApplyFrom(r.fs, root, apply, chs, n + 1) IN
              [fs |-> rest.fs, exc |-> rest.exc, log |-> r.log \o rest.log]

---------------------------------------------------------------------------
(* Properties *)

Done == pc = "done"
HasDoc == spec # NoDoc
Status(s) == Done /\ HasDoc /\ response.status = s

\* the path-bearing keys a change carries, and whether one of them resolves
\* outside root (neither root nor root followed by further names)
PathKeys(ch) == ch.keys \cap {"path", "from", "to"}
PathOf(ch, k) == IF k = "path" THEN ch.path ELSE IF k = "from" THEN ch.from ELSE ch.to
Escapes(root, ch) ==
    \E k \in PathKeys(ch) : ~InsideRoot(root, Resolve(root, PathOf(ch, k)))
DocEscapes(root, doc) == \E n \in 1..Len(doc.changes) : Escapes(root, doc.changes[n])

\* C1: after any sequence of applied changes, nothing outside the project
\* root has been created, overwritten, deleted or moved: every path outside
\* the root is present now iff it was present at the start, with the same node.
C1_OutsideRootUntouched ==
    \A p \in (DOMAIN fs) \cup (DOMAIN fs0) :
        ~InsideRoot(project_root, p) =>
            /\ p \in DOMAIN fs
            /\ p \in DOMAIN fs0
            /\ fs[p] = fs0[p]

\* C2: when the next change of the apply loop has a path, from or to that
\* escapes the root, the step raises the unsafe-path error, mutates nothing,
\* completes no change and ends the loop (the run is over: nothing follows).
C2_EscapeAbortsBeforeMutation ==
    [][ ( /\ pc = "apply"
          /\ idx < Len(spec.changes)
          /\ Escapes(project_root, spec.changes[idx + 1]) )
        => ( /\ fs' = fs
             /\ idx' = idx
             /\ actions_log' = actions_log
             /\ raised' = "ValueError"
             /\ pc' = "done" ) ]_vars

\* C3: a run on a document with a path, from or to outside the root never
\* ends with an ok result, whatever the apply-enabled flag.
C3_EscapeFailsTheRun ==
    (Done /\ HasDoc /\ DocEscapes(project_root, spec)) => ~response.ok

\* the malformations C4 names: a required top-level key missing, a version or
\* intent other than the allowed literal, a change with an unknown action
Malformed(doc) ==
    \/ {"version", "intent", "changes"} \ doc.keys # {}
    \/ doc.version # "1"
    \/ doc.intent # "apply_fixes"
    \/ \E n \in 1..Len(doc.changes) : doc.changes[n].action \notin Actions

\* C4: once the model returned a malformed document, the run never leaves
\* validation except into the schema-error outcome: the filesystem stays as it
\* was, no change is applied, no record logged and no command run.
C4_MalformedDocHasNoEffect ==
    (HasDoc /\ Malformed(spec)) =>
        /\ pc \in {"validate", "done"}
        /\ fs = fs0
        /\ idx = 0
        /\ actions_log = <<>>
        /\ cmd_idx = 0
        /\ cmd_outs = <<>>
        /\ Done => (response.status = "schema_error" /\ ~response.ok)

\* a malformed document whose first change is well-formed and whose second has
\* an unknown action was rejected with apply enabled
C4_Witness ==
    /\ Status("schema_error")
    /\ APPLY_CHANGES
    /\ Len(spec.changes) = 2
    /\ spec.changes[1] \in GoodChanges
    /\ spec.changes[2].action \notin Actions

\* a key outside the declared sets, at the top level or inside a change
DeclaredTop == {"version", "intent", "changes", "commands", "notes"}
DeclaredItem == {"action", "path", "encoding", "content", "from", "to"}
HasUndeclaredKey(doc) ==
    \/ doc.keys \ DeclaredTop # {}
    \/ \E n \in 1..Len(doc.changes) : doc.changes[n].keys \ DeclaredItem # {}

\* C5: a document that carries an undeclared key, at the top level or inside
\* a change, is rejected by validation (the run ends in schema_error).
C5_ClosedSchema ==
    (Done /\ HasDoc /\ HasUndeclaredKey(spec)) => response.status = "schema_error"

\* the document's top level and the values of its changes' enumerated keys
\* conform: what is left to decide is which keys each change carries
PlainDoc(doc) ==
    /\ doc.keys = TopKeys
    /\ doc.version = "1"
    /\ doc.intent = "apply_fixes"
    /\ \A n \in 1..Len(doc.changes) :
         /\ "action" \in doc.changes[n].keys
         /\ doc.changes[n].action \in Actions
         /\ "encoding" \in doc.changes[n].keys => doc.changes[n].encoding \in Encodings

Validated == HasDoc /\ pc # "validate"
Rejected == Status("schema_error")

\* the keys the data model asks of a change, per tag
DataModelKeys(ch) ==
    CASE ch.action \in {"write", "create"} -> {"path", "content"}
      [] ch.action = "delete" -> {"path"}
      [] OTHER -> {"from", "to"}
\* the same, with `path` asked of a move as well
SchemaKeys(ch) ==
    CASE ch.action \in {"write", "create"} -> {"path", "content"}
      [] ch.action = "delete" -> {"path"}
      [] OTHER -> {"path", "from", "to"}

\* C6: validation accepts a document of plain shape iff every change carries
\* the keys the data model asks of its tag (write/create: path and content;
\* delete: path; move: from and to), so a move with only action, from and to
\* is accepted.
C6_PerTagRequirements ==
    (Validated /\ PlainDoc(spec)) =>
        (~Rejected <=> \A n \in 1..Len(spec.changes) :
                          DataModelKeys(spec.changes[n]) \subseteq spec.changes[n].keys)

C6_AcceptedIffSchemaKeys ==
    (Validated /\ PlainDoc(spec)) =>
        (~Rejected <=> \A n \in 1..Len(spec.changes) :
                          SchemaKeys(spec.changes[n]) \subseteq spec.changes[n].keys)

C6_MoveRelocates ==
    LET ch == spec.changes[idx + 1]
        src == Resolve(project_root, ch.from)
        dst == Resolve(project_root, ch.to)
    IN ( /\ pc = "apply"
         /\ idx < Len(spec.changes)
         /\ ch.action = "move"
         /\ idx' = idx + 1
         /\ ~Exists(fs, dst) )
       => ( /\ Exists(fs, src)
            /\ Exists(fs', dst)
            /\ fs'[dst] = fs[src]
            /\ ~Exists(fs', src)
            /\ actions_log' = Append(actions_log, LogRec("MOVE", ch.from, ch.to)) )

\* C6 (amended): validation accepts a document of plain shape iff every change
\* carries the keys the schema asks of its tag (write/create: path and
\* content; delete: path; move: path, from and to); a move that is accepted and
\* completes onto a free destination relocates from to to and logs the move.
C6_PerTagRequirementsWithPath ==
    [] C6_AcceptedIffSchemaKeys /\ [][C6_MoveRelocates]_vars

\* the move of file a to b was validated and applied: b holds what a held
C6_Witness ==
    /\ Status("patch_applied")
    /\ spec.changes = <<MoveCh(P_a, P_a, P_b)>>
    /\ fs0[<<N_r, N_a>>] = FileNode("old")
    /\ Exists(fs, <<N_r, N_b>>)
    /\ fs[<<N_r, N_b>>] = FileNode("old")
    /\ ~Exists(fs, <<N_r, N_a>>)

\* C7: the schema-error result reports every violation of the document, each
\* with its path locator, whatever the apply-enabled flag.
C7_AllViolationsReported ==
    Status("schema_error") =>
        \A n \in 1..Len(iter_errors(spec)) :
            \E m \in 1..Len(response.error) : response.error[m] = iter_errors(spec)[n]

\* the real apply of the run's document on the run's initial filesystem
RealApply == ApplyFrom(fs0, project_root, TRUE, spec.changes, 1)

\* C8: for a document whose real apply succeeds, the run with the flag false
\* returns the action log of the real apply: one record per change, in order.
C8_DryRunLogEqualsRealLog ==
    (Status("validated_only") /\ RealApply.exc = NoExc) =>
        response.actions = RealApply.log

\* C9: a complete run with the flag false leaves the filesystem as it was and
\* has executed no command of the document.
C9_DryRunTouchesNothing ==
    (Done /\ ~APPLY_CHANGES) => (fs = fs0 /\ cmd_idx = 0 /\ cmd_outs = <<>>)

\* C10: the apply-error result carries the partial action log: the records
\* of the changes completed before the failing one, in order.
C10_ApplyErrorCarriesPartialLog ==
    Status("apply_error") =>
        ("actions" \in DOMAIN response /\ response.actions = actions_log)

---------------------------------------------------------------------------
(* Applying a change-set twice *)

\* the apply loop has completed every change of the document
ApplyCompleted == pc = "apply" /\ idx = Len(spec.changes)
\* the apply pass is over: completed, or ended by an exception of a change
ApplyOver == ApplyCompleted \/ Status("apply_error")
\* the same change-set applied again to the filesystem the first pass left
SecondPass == ApplyFrom(fs, project_root, TRUE, spec.changes, 1)
NoMoves(doc) == \A n \in 1..Len(doc.changes) : doc.changes[n].action # "move"

\* the subtree at p is the same in f and g
SameAt(f, g, p) ==
    \A q \in (DOMAIN f) \cup (DOMAIN g) :
        IsPrefix(p, q) => (q \in DOMAIN f /\ q \in DOMAIN g /\ f[q] = g[q])

\* a move of the document whose source does not exist fails and leaves the
\* destination as it is
GoneSourceMoveFails ==
    \A n \in 1..Len(spec.changes) :
        LET ch == spec.changes[n]
            src == Resolve(project_root, ch.from)
            dst == Resolve(project_root, ch.to)
            r == apply_change(fs, project_root, TRUE, ch)
        IN ( /\ ch.action = "move"
             /\ PassesRootCheck(project_root, Resolve(project_root, ch.path))
             /\ PassesRootCheck(project_root, src)
             /\ PassesRootCheck(project_root, dst)
             /\ ~Exists(fs, src) )
           => (r.exc # NoExc /\ SameAt(fs, r.fs, dst))

\* every path of the document resolves to a file or directory below the root
BelowRoot(root, doc) ==
    \A n \in 1..Len(doc.changes) : \A k \in PathKeys(doc.changes[n]) :
        LET t == Resolve(root, PathOf(doc.changes[n], k)) IN
        InsideRoot(root, t) /\ t # root

C11_WitnessMove ==
    /\ pc = "apply"
    /\ idx = 1
    /\ spec.changes = <<MoveCh(P_a, P_a, P_b), MoveCh(P_a, P_a, P_b)>>
    /\ ~Exists(fs, <<N_r, N_a>>)
    /\ Exists(fs, <<N_r, N_b>>)

---------------------------------------------------------------------------
(* The command stage *)

\* C12: commands run only after every change of the document has been applied
\* without error (never after a failed validation or apply); they run once
\* each, in list order, a failing one does not stop the next, and the report
\* holds one result per command in the same order.
C12_CommandsAfterSuccessfulApply ==
    /\ cmd_idx > 0 => (idx = Len(spec.changes) /\ raised = NoExc)
    /\ (Done /\ HasDoc /\ ~response.ok) => (cmd_idx = 0 /\ cmd_outs = <<>>)
    /\ Len(cmd_outs) = cmd_idx
    /\ \A k \in 1..cmd_idx : cmd_outs[k].cmd = spec.commands[k]
    /\ (Done /\ HasDoc /\ response.ok) =>
           (cmd_idx = Len(spec.commands) /\ response.commands = cmd_outs)

---------------------------------------------------------------------------
(* The stages of one run of api_run *)

\* the request passed the checks of lines 195-198
RootAccepted == Exists(fs0, project_root) /\ is_gradle_project(fs0, project_root)
\* the run has ended with this status tag
Outcome(s) == Done /\ "status" \in DOMAIN response /\ response.status = s
\* the build has run and reported this exit code
BuildExited(code) == calls.build = 1 /\ rc = code

\* the stage order of one run: no stage is entered twice, the model is called
\* only after a failed build, validation only after the model returned a
\* document, apply only after a validation without errors, and a build that
\* exits 0 ends the run with success and nothing else done
StagesInOrder ==
    /\ calls.build <= 1 /\ calls.model <= 1
    /\ calls.validate <= 1 /\ calls.apply <= 1
    /\ calls.model > 0 => (calls.build = 1 /\ rc # 0)
    /\ calls.validate > 0 => (calls.model = 1 /\ calls.model_raised = 0 /\ spec \in Docs)
    /\ calls.apply > 0 => (calls.validate = 1 /\ iter_errors(spec) = <<>>)
    /\ (idx > 0 \/ actions_log # <<>>) => calls.apply = 1
    /\ BuildExited(0) =>
           /\ Outcome("success")
           /\ calls.model = 0 /\ calls.validate = 0 /\ calls.apply = 0
           /\ idx = 0 /\ cmd_idx = 0 /\ fs = fs0

\* C13: one cycle per run: in every run the build is executed exactly once and
\* never re-entered, the model is called at most once and only after a
\* non-zero exit, validation starts only after the model call returned, apply
\* happens at most once and only after validation succeeded, and exit code 0
\* ends the run with success without model call, apply or command.
C13_OneCyclePerRun ==
    /\ StagesInOrder
    /\ Done => calls.build = 1

\* C13 (amended): as above, the build being executed exactly once in every
\* run whose project root was accepted, and not at all in a run that was
\* rejected at the project-root checks.
C13_OneCyclePerAcceptedRun ==
    /\ StagesInOrder
    /\ (Done /\ RootAccepted) => calls.build = 1
    /\ (Done /\ ~RootAccepted) => calls = NoCalls

\* a run went through the whole cycle: build failed, model called, document
\* validated and applied, command run, report returned
C13_Witness ==
    /\ Outcome("patch_applied")
    /\ calls = [build |-> 1, model |-> 1, model_raised |-> 0, validate |-> 1, apply |-> 1]
    /\ idx > 0 /\ cmd_idx > 0

\* C14: every terminating outcome returns a result with a status tag, a
\* human-readable message and the paths of all artifacts written so far in the
\* run (the build log, the prompt file).
C14_OutcomeCarriesStatusMessageArtifacts ==
    Done =>
        /\ "status" \in DOMAIN response
        /\ "error" \in DOMAIN response \/ "message" \in DOMAIN response
        /\ LogFile \in artifacts =>
               ("log_file" \in DOMAIN response /\ response.log_file = LogFile)
        /\ PromptFile \in artifacts =>
               ("prompt_file" \in DOMAIN response /\ response.prompt_file = PromptFile)

\* C15: when the build executable is missing (run_gradle returns 127) the run
\* ends at the build stage: no model call, no validation, no apply, no
\* command, and the result carries the build log path.
C15_BuildToolMissingStopsAtBuild ==
    BuildExited(127) =>
        /\ calls.model = 0 /\ calls.validate = 0 /\ calls.apply = 0
        /\ idx = 0 /\ cmd_idx = 0 /\ fs = fs0
        /\ Done => ("log_file" \in DOMAIN response /\ response.log_file = LogFile)

\* C16: a failed model call ends the run with the openai_error outcome, which
\* carries the build-log path and the prompt path (both files written); the
\* call is not retried and the run validates nothing, changes no file and runs
\* no command.
C16_ModelFailureEndsTheRun ==
    calls.model_raised > 0 =>
        /\ Outcome("openai_error")
        /\ "log_file" \in DOMAIN response /\ response.log_file = LogFile
        /\ "prompt_file" \in DOMAIN response /\ response.prompt_file = PromptFile
        /\ {LogFile, PromptFile} \subseteq artifacts
        /\ calls.model = 1 /\ calls.model_raised = 1
        /\ calls.validate = 0 /\ calls.apply = 0
        /\ spec = NoDoc /\ idx = 0 /\ actions_log = <<>>
        /\ cmd_idx = 0 /\ cmd_outs = <<>>
        /\ fs = fs0

\* the model call of a run with a failed build has raised
C16_Witness == calls.model_raised = 1 /\ Done /\ rc = 1 /\ response.code = 500

---------------------------------------------------------------------------
(* The action log and the order of application *)

\* the record the k-th change is to leave in the log: the upper-cased tag and
\* the path as the document spells it, MOVE with from and to for a move
ExpectedVerb(a) ==
    CASE a = "write" -> "WRITE"
      [] a = "create" -> "CREATE"
      [] a = "delete" -> "DELETE"
      [] a = "move" -> "MOVE"
ExpectedRec(ch) ==
    IF ch.action = "move" THEN [verb |-> "MOVE", path |-> ch.from, to |-> ch.to]
    ELSE [verb |-> ExpectedVerb(ch.action), path |-> ch.path, to |-> NoPath]

\* a write of a followed by a move of a to b
WriteThenMove == <<WriteCh("write", P_a, C_b64), MoveCh(P_a, P_a, P_b)>>

\* C17: apply_patch_spec processes the changes in document order: the log
\* holds one record per processed change, the k-th being the upper-cased tag
\* and path of the k-th change (MOVE from -> to for a move), all of them on
\* success; each change is applied to the filesystem the earlier ones left,
\* so a write followed by a move of the same path relocates the new content.
C17_ChangesInDocumentOrder ==
    calls.apply = 1 =>
        /\ Len(actions_log) = idx
        /\ \A k \in 1..idx : actions_log[k] = ExpectedRec(spec.changes[k])
        /\ (pc # "apply" /\ raised = NoExc) => idx = Len(spec.changes)
        /\ pc = "apply" =>
               LET pre == ApplyFrom(fs0, project_root, TRUE,
                                    SubSeq(spec.changes, 1, idx), 1)
               IN pre.exc = NoExc /\ pre.fs = fs
        /\ (ApplyCompleted /\ spec.changes = WriteThenMove) =>
               /\ ~Exists(fs, <<N_r, N_a>>)
               /\ IsFile(fs, <<N_r, N_b>>)
               /\ fs[<<N_r, N_b>>].data = C_b64

\* a write followed by a move of the written path was applied and reported,
\* over a project that held an older a
C17_Witness ==
    /\ Outcome("patch_applied")
    /\ spec.changes = WriteThenMove
    /\ Len(response.actions) = 2
    /\ IsFile(fs0, <<N_r, N_a>>)

---------------------------------------------------------------------------
(* What an apply leaves of the project *)

\* C18: the project root survives every apply: whatever schema-valid
\* change-set is applied (a delete of '.', a move whose from is the root),
\* the root directory still exists at its place afterwards. Stated for the
\* change-sets whose paths all resolve to the root or below it.
C18_RootSurvivesApply ==
    (calls.apply = 1 /\ ~DocEscapes(project_root, spec)) => IsDir(fs, project_root)

\* C19: a write or create whose base64 content fails to decode has no effect
\* of its own: the step that raises the decode error leaves the filesystem as
\* the earlier changes left it, with no file and no parent directory created.
C19_FailedDecodeHasNoEffect ==
    [][(pc = "apply" /\ raised' = "binascii.Error") => fs' = fs]_vars

---------------------------------------------------------------------------
(* Several runs of api_run sharing LOGS_DIR and PROMPTS_DIR *)

\* the variables of the single-run specification, idle here
mainvars == <<APPLY_CHANGES, fs, fs0, pc, project_root, rc, spec, idx, actions_log,
              cmd_idx, cmd_outs, raised, response, calls, artifacts>>

\* the project roots the runs are started on, each a Gradle project
RunRoots == {RootDir, SiblingDir}

\* the build output of a run (lines 76-84): the output of the build of its
\* project, or the fixed text of line 82, the same for every project
BuildOutput(root, code) ==
    [project |-> IF code = 127 THEN <<>> ELSE root, returncode |-> code]
\* build_prompt (lines 134-154): the project root and the build output
Prompt(root, out) == [root |-> root, build_output |-> out]

\* the file name -> content map after writing content under the name of ts
WriteText(dir, ts, content) ==
    [t \in (DOMAIN dir) \cup {ts} |-> IF t = ts THEN content ELSE dir[t]]

RunsSpecInit ==
    /\ APPLY_CHANGES = FALSE
    /\ fs = FS_base
    /\ fs0 = fs
    /\ pc = "idle"
    /\ project_root = <<>>
    /\ rc = 0
    /\ spec = NoDoc
    /\ idx = 0
    /\ actions_log = <<>>
    /\ cmd_idx = 0
    /\ cmd_outs = <<>>
    /\ raised = NoExc
    /\ response = NoResponse
    /\ calls = NoCalls
    /\ artifacts = {}
    /\ RunsInit

\* lines 193-200: a request arrives for an accepted root and its build runs
RBuild(r) ==
    /\ runs[r].pc = "idle"
    /\ \E root \in RunRoots, code \in ExitCodes :
         runs' = [runs EXCEPT ![r] = [@ EXCEPT !.pc = "built", !.root = root,
                                                !.rc = code]]
    /\ UNCHANGED <<clock, logs_dir, prompts_dir, mainvars>>

\* line 201: ts is the wall clock, to the second
RStamp(r) ==
    /\ runs[r].pc = "built"
    /\ runs' = [runs EXCEPT ![r] = [@ EXCEPT !.pc = "stamped", !.ts = clock]]
    /\ UNCHANGED <<clock, logs_dir, prompts_dir, mainvars>>

\* lines 202-206: the build log is written under the name of ts; a successful
\* build ends the run, which reports the log file
RWriteLog(r) ==
    /\ runs[r].pc = "stamped"
    /\ logs_dir' = WriteText(logs_dir, runs[r].ts,
                             BuildOutput(runs[r].root, runs[r].rc))
    /\ runs' = [runs EXCEPT ![r] = [@ EXCEPT !.log_file = runs[r].ts,
                    !.pc = IF runs[r].rc = 0 THEN "done" ELSE "logged"]]
    /\ UNCHANGED <<clock, prompts_dir, mainvars>>

\* lines 209-253: the prompt is written under the name of ts; the rest of the
\* run writes no artifact and its result names the files written
RWritePrompt(r) ==
    /\ runs[r].pc = "logged"
    /\ prompts_dir' = WriteText(prompts_dir, runs[r].ts,
                                Prompt(runs[r].root,
                                       BuildOutput(runs[r].root, runs[r].rc)))
    /\ runs' = [runs EXCEPT ![r] = [@ EXCEPT !.prompt_file = runs[r].ts,
                                             !.pc = "done"]]
    /\ UNCHANGED <<clock, logs_dir, mainvars>>

\* a second passes
Tick ==
    /\ clock < MaxClock
    /\ clock' = clock + 1
    /\ UNCHANGED <<runs, logs_dir, prompts_dir, mainvars>>

RunsNext ==
    \/ \E r \in Runs : RBuild(r)
    \/ \E r \in Runs : RStamp(r)
    \/ \E r \in Runs : RWriteLog(r)
    \/ \E r \in Runs : RWritePrompt(r)
    \/ Tick

RunsSpec == RunsSpecInit /\ [][RunsNext]_vars

AllRunsDone == \A r \in Runs : runs[r].pc = "done"

\* C20: artifacts are isolated between runs: whatever the interleaving, and
\* also when two runs on different project roots take their timestamp in the
\* same second, once the runs have finished the log file and the prompt file
\* each run reported still hold that run's own build output and prompt.
C20_ArtifactsIsolated ==
    AllRunsDone =>
        \A r \in Runs :
            /\ runs[r].log_file \in DOMAIN logs_dir
            /\ logs_dir[runs[r].log_file] = BuildOutput(runs[r].root, runs[r].rc)
            /\ runs[r].rc # 0 =>
                   /\ runs[r].prompt_file \in DOMAIN prompts_dir
                   /\ prompts_dir[runs[r].prompt_file] =
                          Prompt(runs[r].root, BuildOutput(runs[r].root, runs[r].rc))

====
